---- MODULE Spec2Model ----
(***************************************************************************)
(* Legal Document Analyzer (src/index.tsx): the application state record,  *)
(* the three asynchronous handlers analyzeDocument, handleFileUpload and   *)
(* askFollowUpQuestion, toggleClause, the input listeners and renderApp.   *)
(*                                                                         *)
(* JavaScript runs each handler synchronously up to its next await, so an  *)
(* action of this module is one such synchronous run: the part of a        *)
(* handler before its await (which registers the pending call), or the     *)
(* part that resumes when the awaited call settles (try/catch/finally).    *)
(* Texts are sequences of characters so that String.prototype.trim is      *)
(* computed, not assumed.                                                  *)
(***************************************************************************)
EXTENDS Integers, Sequences, FiniteSets, TLC

VARIABLES
    ai,             \* TRUE iff `new GoogleGenAI(...)` succeeded (line 37-43)
    state,          \* the `state` object (line 16-34)
    analysisCalls,  \* generateContent calls awaited by analyzeDocument
    uploadCalls,    \* file reads awaited by handleFileUpload
    chatCalls,      \* sendMessage calls awaited by askFollowUpQuestion
    view,           \* what renderApp last put in the DOM
    started,        \* history: number of asynchronous calls started so far
    overtaken,      \* history: the analysis requests that were pending when a
                    \*          file upload began
    last            \* history: the handler run that produced this state

vars == <<ai, state, analysisCalls, uploadCalls, chatCalls, view,
          started, overtaken, last>>

----------------------------------------------------------------------------
(* Bounds of the model *)

\* Asynchronous calls (analysis requests, file reads, chat turns) started
\* in one run of the page.
MaxCalls == 4
\* Clauses in an analysis.
MaxClause == 2

----------------------------------------------------------------------------
(* Values *)

\* A field that holds null (or undefined) or a value is a set with at most
\* one element: Null is JavaScript's null, Some(v) the value v.
Null == {}
Some(v) == {v}
Get(x) == CHOOSE v \in x : TRUE

\* Document texts a user can type or a file can hold.
DocTexts == { <<>>, <<" ">>, <<"a">> }

\* Question texts a user can type into the chat input.
QuestionTexts == { <<>>, <<" ">>, <<"q", " ">> }

FileTypes == { "application/pdf", "text/plain", "image/png" }

\* The values of the four context fields: the role is free text (line 421),
\* the others are the options of the selects (line 425-444).
UserRoles == { "Tenant", "Landlord" }
AudienceTypes == { "Layman", "Intermediate", "Expert" }
ExplanationLevels == { "Layman", "Intermediate", "Expert" }
ExplanationTones == { "Casual", "Formal" }

\* Mutant of trim: the text is used as typed.
trim_Omitted(s) == s

\* String.prototype.trim: strip leading and trailing white space.
RECURSIVE TrimLeft(_)
TrimLeft(s) ==
    IF s = <<>> THEN <<>>
    ELSE IF Head(s) = " " THEN TrimLeft(Tail(s)) ELSE s

RECURSIVE TrimRight(_)
TrimRight(s) ==
    IF s = <<>> THEN <<>>
    ELSE IF s[Len(s)] = " " THEN TrimRight(SubSeq(s, 1, Len(s) - 1)) ELSE s

trim(s) == TrimRight(TrimLeft(s))

\* The messages the handlers store in state.error / state.chatError; a
\* message is the sequence of the template's pieces.
InitFailedMessage ==
    <<"Failed to initialize the Gemini API. Please ensure the API key is set correctly.">>
EmptyDocumentMessage == <<"Please paste or upload a document to analyze.">>
AnalysisErrorMessage(cause) ==
    <<"An error occurred during analysis: ", cause, ". Please try again.">>
UploadErrorMessage(cause) == <<"Failed to process the uploaded file: ", cause>>
ChatErrorMessage(cause) == <<"Sorry, an error occurred: ", cause>>
UnsupportedFileType == "Unsupported file type. Please upload a .txt or .pdf file."

\* Mutant of the prompt: audience and complexity level change places.
userPrompt_FieldsSwapped(form) ==
    <<"Document content:">> \o form.documentContent
    \o <<"User role:", form.userRole,
         "Desired summary audience/type:", form.explanationLevel,
         "Explanation complexity level:", form.audienceType,
         "Explanation tone:", form.explanationTone,
         "Required output format: JSON">>

\* The template literal of line 119-130: the document and the four context
\* fields as they are in state.form when analyzeDocument runs.
userPrompt(form) ==
    <<"Document content:">> \o form.documentContent
    \o <<"User role:", form.userRole,
         "Desired summary audience/type:", form.audienceType,
         "Explanation complexity level:", form.explanationLevel,
         "Explanation tone:", form.explanationTone,
         "Required output format: JSON">>

\* What the model service can answer to request n: an AnalysisResult for
\* that request with clauses 1..k, serialised as JSON text.
AnalysisResults(n) ==
    { [request |-> n, clauses |-> 1..k] : k \in {1, MaxClause} }
\* A response text: the JSON of a (with the white space around it), or text
\* that is not JSON.
JsonText(a, padding) == [json |-> a, padding |-> padding]
Garbage == [raw |-> "not json"]

\* response.text.trim() (line 143).
trimText(text) ==
    IF "padding" \in DOMAIN text THEN [text EXCEPT !.padding = ""] ELSE text

\* JSON.parse (line 144): the value, or a SyntaxError.
JSONparse(text) ==
    IF "json" \in DOMAIN text THEN [ok |-> TRUE, value |-> text.json]
    ELSE [ok |-> FALSE, message |-> "Unexpected token in JSON"]

\* The ways `await ai.models.generateContent(...)` can settle for request n:
\* the call is rejected, or it returns a response whose text is undefined,
\* is not JSON, or is the JSON of an analysis.
AnalysisOutcomes(n) ==
    { [kind |-> "rejected", message |-> "503 Service Unavailable"] }
    \cup { [kind |-> "response", text |-> Null] }
    \cup { [kind |-> "response", text |-> Some(Garbage)] }
    \cup { [kind |-> "response", text |-> Some(JsonText(a, padding))] :
             a \in AnalysisResults(n), padding \in {"", "\n"} }

\* Mutant of the seed: the request is left out.
ChatSeed_ModelTurnOnly(prompt, jsonText) ==
    << [role |-> "model",
        parts |-> [prefix |-> <<"I have analyzed the document. Here is the summary in JSON format as requested:\n">>,
                   text |-> jsonText]] >>

\* The seed history handed to ai.chats.create (line 149-152).
ChatSeed(prompt, jsonText) ==
    << [role |-> "user", parts |-> [prefix |-> <<>>, text |-> prompt]],
       [role |-> "model",
        parts |-> [prefix |-> <<"I have analyzed the document. Here is the summary in JSON format as requested:\n">>,
                   text |-> jsonText]] >>

\* The Chat object created for request n.
NewChat(n, prompt, jsonText) == [id |-> n, history |-> ChatSeed(prompt, jsonText)]

\* The reply of chat session c to a question.
Answer(c, question) == <<"answer of session", ToString(c.id), "to">> \o question

\* The ways a file read (file.text(), or the pdf.js page loop) can settle.
UploadOutcomes ==
    { [kind |-> "text", textContent |-> t] : t \in DocTexts }
    \cup { [kind |-> "rejected", message |-> "Invalid PDF structure"] }

\* The ways `await state.chat.sendMessage(...)` can settle.
ChatOutcomes == { [kind |-> "reply"], [kind |-> "rejected", message |-> "429 Too Many Requests"] }

----------------------------------------------------------------------------
(* View: App() / renderAnalysis() / renderChat() as a function of state *)

renderChat(s) ==
    IF s.chat = Null THEN [shown |-> FALSE]
    ELSE [shown |-> TRUE,
          messages |-> s.chatHistory,
          typing |-> s.isChatLoading,
          chatError |-> s.chatError,
          inputDisabled |-> s.isChatLoading,
          sendDisabled |-> (trim(s.currentQuestion) = <<>>) \/ s.isChatLoading]

renderAnalysis(s) ==
    IF s.isLoading THEN [panel |-> "loading"]
    ELSE IF s.error # Null THEN [panel |-> "error", message |-> Get(s.error)]
    ELSE IF s.analysis = Null THEN [panel |-> "placeholder"]
    ELSE [panel |-> "analysis",
          request |-> Get(s.analysis).request,
          clauses |-> Get(s.analysis).clauses,
          expanded |-> {c \in Get(s.analysis).clauses : s.activeClause = Some(c)},
          chat |-> renderChat(s)]

App(s) ==
    [submitDisabled |-> s.isLoading,
     output |-> renderAnalysis(s)]

\* renderApp(): render(App(), ...)
renderApp(s) == App(s)

ChatFormShown(v) == v.output.panel = "analysis" /\ v.output.chat.shown

----------------------------------------------------------------------------
(* Initial state *)

InitialState(clientOk) ==
    [isLoading |-> FALSE,
     analysis |-> Null,
     error |-> IF clientOk THEN Null ELSE Some(InitFailedMessage),
     activeClause |-> Null,
     form |-> [documentContent |-> <<>>,
               userRole |-> "Tenant",
               audienceType |-> "Layman",
               explanationLevel |-> "Layman",
               explanationTone |-> "Casual"],
     chat |-> Null,
     chatHistory |-> <<>>,
     isChatLoading |-> FALSE,
     chatError |-> Null,
     currentQuestion |-> <<>>]

Init ==
    /\ ai \in BOOLEAN
    /\ state = InitialState(ai)
    /\ analysisCalls = {}
    /\ uploadCalls = {}
    /\ chatCalls = {}
    /\ view = renderApp(state)
    /\ started = 0
    /\ overtaken = {}
    /\ last = [op |-> "init"]

----------------------------------------------------------------------------
(* analyzeDocument, line 96-165 *)

\* line 107-111: the assignments before the request is built.
analyzeDocumentBegin(s) ==
    [s EXCEPT !.isLoading = TRUE,
              !.analysis = Null,
              !.error = Null,
              !.chat = Null,
              !.chatHistory = <<>>]

\* line 133-156: the try body from the point where the awaited call
\* settles: what it assigns to state.analysis and state.chat, and the
\* message of the error it throws, if any.
analyzeDocumentTry(s, call, outcome) ==
    LET throws(message) ==
            [analysis |-> s.analysis, chat |-> s.chat, thrown |-> Some(message)]
    IN  IF outcome.kind = "rejected" THEN throws(outcome.message)
        ELSE IF outcome.text = Null
             THEN throws("Cannot read properties of undefined (reading 'trim')")
        ELSE LET jsonText == trimText(Get(outcome.text))
                 parsed == JSONparse(jsonText)
             IN  IF ~parsed.ok THEN throws(parsed.message)
                 ELSE [analysis |-> Some(parsed.value),
                       chat |-> Some(NewChat(call.id, call.prompt, jsonText)),
                       thrown |-> Null]

\* line 132-164: try, catch and finally once the awaited call has settled.
analyzeDocumentSettle(s, call, outcome) ==
    LET try == analyzeDocumentTry(s, call, outcome)
    IN  [s EXCEPT !.analysis = try.analysis,
                  !.chat = try.chat,
                  !.error = IF try.thrown = Null THEN @
                            ELSE Some(AnalysisErrorMessage(Get(try.thrown))),
                  !.isLoading = FALSE]

\* The form's submit listener (line 387) runs analyzeDocument; the browser
\* fires it only while the submit button is not disabled (line 448).
SubmitEnabled == ~view.submitDisabled

\* line 97-100: no client.
AnalyzeNoClient ==
    /\ SubmitEnabled
    /\ ~ai
    /\ view' = renderApp(state)
    /\ last' = [op |-> "analyzeDocument", result |-> "no client",
                form |-> state.form, callsBefore |-> analysisCalls]
    /\ UNCHANGED <<ai, state, analysisCalls, uploadCalls, chatCalls,
                   started, overtaken>>

\* line 101-105: blank document.
AnalyzeBlank ==
    /\ SubmitEnabled
    /\ ai
    /\ trim(state.form.documentContent) = <<>>
    /\ state' = [state EXCEPT !.error = Some(EmptyDocumentMessage)]
    /\ view' = renderApp(state')
    /\ last' = [op |-> "analyzeDocument", result |-> "blank",
                form |-> state.form, callsBefore |-> analysisCalls]
    /\ UNCHANGED <<ai, analysisCalls, uploadCalls, chatCalls,
                   started, overtaken>>

\* line 107-141: reset, render, build the prompt, issue the request.
AnalyzeStart ==
    /\ SubmitEnabled
    /\ ai
    /\ trim(state.form.documentContent) # <<>>
    /\ started < MaxCalls
    /\ started' = started + 1
    /\ state' = analyzeDocumentBegin(state)
    /\ view' = renderApp(state')
    /\ analysisCalls' = analysisCalls \cup {[id |-> started', prompt |-> userPrompt(state.form)]}
    /\ last' = [op |-> "analyzeDocument", result |-> "started",
                form |-> state.form, callsBefore |-> analysisCalls]
    /\ UNCHANGED <<ai, uploadCalls, chatCalls, overtaken>>

\* line 143-164: the awaited call settles.
AnalyzeSettle ==
    \E call \in analysisCalls : \E outcome \in AnalysisOutcomes(call.id) :
        /\ state' = analyzeDocumentSettle(state, call, outcome)
        /\ view' = renderApp(state')
        /\ analysisCalls' = analysisCalls \ {call}
        /\ LET thrown == analyzeDocumentTry(state, call, outcome).thrown
           IN  last' = [op |-> "analyzeDocument",
                        result |-> IF thrown = Null THEN "succeeded" ELSE "failed",
                        cause |-> thrown,
                        exchange |-> IF thrown = Null
                                     THEN Some([prompt |-> call.prompt,
                                                text |-> Get(outcome.text)])
                                     ELSE Null]
        /\ UNCHANGED <<ai, uploadCalls, chatCalls, started, overtaken>>

----------------------------------------------------------------------------
(* handleFileUpload, line 460-506 *)

\* line 472-475
handleFileUploadBegin(s) ==
    [s EXCEPT !.isLoading = TRUE,
              !.error = Null,
              !.form.documentContent = <<>>,
              !.analysis = Null]

\* line 496-502: the end of the try body, the catch and the finally.
handleFileUploadSettle(s, outcome) ==
    IF outcome.kind = "text"
    THEN [s EXCEPT !.form.documentContent = outcome.textContent,
                   !.isLoading = FALSE]
    ELSE [s EXCEPT !.error = Some(UploadErrorMessage(outcome.message)),
                   !.isLoading = FALSE]

\* A file of a type that is read with an await (line 480-492).
UploadStart ==
    /\ started < MaxCalls
    /\ started' = started + 1
    /\ \E type \in {"application/pdf", "text/plain"} :
        /\ state' = handleFileUploadBegin(state)
        /\ view' = renderApp(state')
        /\ uploadCalls' = uploadCalls \cup {[id |-> started']}
    /\ overtaken' = overtaken \cup {c.id : c \in analysisCalls}
    /\ last' = [op |-> "handleFileUpload", result |-> "started"]
    /\ UNCHANGED <<ai, analysisCalls, chatCalls>>

\* A file of any other type: line 494 throws before any await, so the
\* catch and the finally run in the same turn.
UploadUnsupported ==
    /\ started < MaxCalls
    /\ started' = started + 1
    /\ \E type \in FileTypes \ {"application/pdf", "text/plain"} :
        /\ state' = handleFileUploadSettle(handleFileUploadBegin(state),
                        [kind |-> "rejected", message |-> UnsupportedFileType])
        /\ view' = renderApp(state')
    /\ overtaken' = overtaken \cup {c.id : c \in analysisCalls}
    /\ last' = [op |-> "handleFileUpload", result |-> "unsupported",
                cause |-> Some(UnsupportedFileType)]
    /\ UNCHANGED <<ai, analysisCalls, uploadCalls, chatCalls>>

UploadSettle ==
    \E call \in uploadCalls : \E outcome \in UploadOutcomes :
        /\ state' = handleFileUploadSettle(state, outcome)
        /\ view' = renderApp(state')
        /\ uploadCalls' = uploadCalls \ {call}
        /\ last' = [op |-> "handleFileUpload",
                    result |-> IF outcome.kind = "text" THEN "succeeded" ELSE "failed",
                    cause |-> IF outcome.kind = "text" THEN Null
                              ELSE Some(outcome.message)]
        /\ UNCHANGED <<ai, analysisCalls, chatCalls, started, overtaken>>

----------------------------------------------------------------------------
(* askFollowUpQuestion, line 168-197 *)

\* Mutant of the early return: only the missing session is checked.
askFollowUpQuestionIgnores_SessionOnly(s) ==
    s.chat = Null

\* line 169: the early return.
askFollowUpQuestionIgnores(s) ==
    s.chat = Null \/ trim(s.currentQuestion) = <<>> \/ s.isChatLoading

\* line 173-177
askFollowUpQuestionBegin(s) ==
    [s EXCEPT !.isChatLoading = TRUE,
              !.chatError = Null,
              !.chatHistory = Append(@, [role |-> "user", text |-> trim(s.currentQuestion)]),
              !.currentQuestion = <<>>]

\* Mutant of the completion: the error is also appended as a model turn.
askFollowUpQuestionSettle_ErrorAsTurn(s, call, outcome) ==
    IF outcome.kind = "reply"
    THEN [s EXCEPT !.chatHistory = Append(@, [role |-> "model",
                                               text |-> Answer(call.chat, call.question)]),
                   !.isChatLoading = FALSE]
    ELSE [s EXCEPT !.chatHistory = Append(@, [role |-> "model",
                                               text |-> ChatErrorMessage(outcome.message)]),
                   !.chatError = Some(ChatErrorMessage(outcome.message)),
                   !.isChatLoading = FALSE]

\* line 188-194
askFollowUpQuestionSettle(s, call, outcome) ==
    IF outcome.kind = "reply"
    THEN [s EXCEPT !.chatHistory = Append(@, [role |-> "model",
                                               text |-> Answer(call.chat, call.question)]),
                   !.isChatLoading = FALSE]
    ELSE [s EXCEPT !.chatError = Some(ChatErrorMessage(outcome.message)),
                   !.isChatLoading = FALSE]

\* The chat form's submit listener (line 260) and the keydown listener of
\* its textarea (line 209-214, 269) exist while the chat form is in the DOM.
AskIgnored ==
    /\ ChatFormShown(view)
    /\ askFollowUpQuestionIgnores(state)
    /\ last' = [op |-> "askFollowUpQuestion", result |-> "ignored",
                wasLoading |-> state.isChatLoading,
                questionBefore |-> state.currentQuestion,
                turnsBefore |-> Len(state.chatHistory),
                callsBefore |-> chatCalls]
    /\ UNCHANGED <<ai, state, analysisCalls, uploadCalls, chatCalls, view,
                   started, overtaken>>

AskStart ==
    /\ ChatFormShown(view)
    /\ ~askFollowUpQuestionIgnores(state)
    /\ started < MaxCalls
    /\ started' = started + 1
    /\ state' = askFollowUpQuestionBegin(state)
    /\ view' = renderApp(state')
    /\ chatCalls' = chatCalls \cup {[id |-> started',
                                     chat |-> Get(state.chat),
                                     question |-> trim(state.currentQuestion)]}
    /\ last' = [op |-> "askFollowUpQuestion", result |-> "started",
                wasLoading |-> state.isChatLoading,
                questionBefore |-> state.currentQuestion,
                turnsBefore |-> Len(state.chatHistory),
                callsBefore |-> chatCalls]
    /\ UNCHANGED <<ai, analysisCalls, uploadCalls, overtaken>>

AskSettle ==
    \E call \in chatCalls : \E outcome \in ChatOutcomes :
        /\ state' = askFollowUpQuestionSettle(state, call, outcome)
        /\ view' = renderApp(state')
        /\ chatCalls' = chatCalls \ {call}
        /\ last' = [op |-> "askFollowUpQuestion",
                    result |-> IF outcome.kind = "reply" THEN "succeeded" ELSE "failed",
                    call |-> call,
                    cause |-> IF outcome.kind = "reply" THEN Null ELSE Some(outcome.message),
                    historyBefore |-> state.chatHistory,
                    chatBefore |-> state.chat]
        /\ UNCHANGED <<ai, analysisCalls, uploadCalls, started, overtaken>>

----------------------------------------------------------------------------
(* toggleClause and the input listeners *)

\* Mutant of toggleClause: the clicked clause is opened, never closed.
toggleClause_AlwaysOpens(s, clauseNumber) ==
    [s EXCEPT !.activeClause = Some(clauseNumber)]

\* line 509
toggleClause(s, clauseNumber) ==
    [s EXCEPT !.activeClause =
        IF s.activeClause = Some(clauseNumber) THEN Null ELSE Some(clauseNumber)]

\* line 354: a click on the header of a clause the view shows.
ToggleClause ==
    /\ view.output.panel = "analysis"
    /\ \E clauseNumber \in view.output.clauses :
        /\ state' = toggleClause(state, clauseNumber)
        /\ view' = renderApp(state')
        /\ last' = [op |-> "toggleClause", clause |-> clauseNumber, before |-> state]
    /\ UNCHANGED <<ai, analysisCalls, uploadCalls, chatCalls, started, overtaken>>

\* line 412: typing in the document textarea; no render.
InputDocument ==
    /\ \E t \in DocTexts :
        /\ t # state.form.documentContent
        /\ state' = [state EXCEPT !.form.documentContent = t]
    /\ last' = [op |-> "input", field |-> "documentContent"]
    /\ UNCHANGED <<ai, analysisCalls, uploadCalls, chatCalls, view,
                   started, overtaken>>

\* line 265-268: typing in the chat textarea, which is in the DOM and not
\* disabled (line 270); no render.
InputQuestion ==
    /\ ChatFormShown(view)
    /\ ~view.output.chat.inputDisabled
    /\ \E t \in QuestionTexts :
        /\ t # state.currentQuestion
        /\ state' = [state EXCEPT !.currentQuestion = t]
    /\ last' = [op |-> "input", field |-> "currentQuestion"]
    /\ UNCHANGED <<ai, analysisCalls, uploadCalls, chatCalls, view,
                   started, overtaken>>

\* line 421, 425, 433, 441: the listeners of the four context fields; no
\* render.
InputContext ==
    /\ \/ \E v \in UserRoles :
            v # state.form.userRole /\ state' = [state EXCEPT !.form.userRole = v]
       \/ \E v \in AudienceTypes :
            v # state.form.audienceType /\ state' = [state EXCEPT !.form.audienceType = v]
       \/ \E v \in ExplanationLevels :
            v # state.form.explanationLevel /\ state' = [state EXCEPT !.form.explanationLevel = v]
       \/ \E v \in ExplanationTones :
            v # state.form.explanationTone /\ state' = [state EXCEPT !.form.explanationTone = v]
    /\ last' = [op |-> "input", field |-> "context"]
    /\ UNCHANGED <<ai, analysisCalls, uploadCalls, chatCalls, view,
                   started, overtaken>>

----------------------------------------------------------------------------

Next ==
    \/ AnalyzeNoClient
    \/ AnalyzeBlank
    \/ AnalyzeStart
    \/ AnalyzeSettle
    \/ UploadStart
    \/ UploadUnsupported
    \/ UploadSettle
    \/ AskIgnored
    \/ AskStart
    \/ AskSettle
    \/ ToggleClause
    \/ InputDocument
    \/ InputQuestion

Spec == Init /\ [][Next]_vars

\* The submission path with the context fields edited: the listeners of
\* the form's fields and analyzeDocument.
NextContext ==
    \/ InputContext
    \/ InputDocument
    \/ AnalyzeNoClient
    \/ AnalyzeBlank
    \/ AnalyzeStart
    \/ AnalyzeSettle

SpecContext == Init /\ [][NextContext]_vars

----------------------------------------------------------------------------
(* Properties *)

AnalysisStarted == last.op = "analyzeDocument" /\ last.result = "started"
AnalysisSucceeded == last.op = "analyzeDocument" /\ last.result = "succeeded"
AnalysisFailed == last.op = "analyzeDocument" /\ last.result = "failed"
UploadBegan ==
    last.op = "handleFileUpload" /\ last.result \in {"started", "unsupported"}
AskInvoked ==
    last.op = "askFollowUpQuestion" /\ last.result \in {"ignored", "started"}

\* C1: in every reachable state, state.chat is non-null if and only if
\* state.analysis is non-null.
C1_ChatIffAnalysis ==
    (state.chat # Null) <=> (state.analysis # Null)

\* C2: right after the first synchronous step of a new analysis
\* (analyzeDocument with a non-blank document) or of a new file upload
\* (handleFileUpload with a file), state.chat is null and chatHistory is
\* empty.
C2_NewRunDiscardsChat ==
    (AnalysisStarted \/ UploadBegan) =>
        (state.chat = Null /\ state.chatHistory = <<>>)

\* C3: once handleFileUpload has started, no analysis of the earlier
\* document is installed: state.analysis never holds the result of a request
\* that was issued before a file upload began.
C3_NoStaleAnalysisAfterUpload ==
    state.analysis # Null => Get(state.analysis).request \notin overtaken

\* C4: when analyzeDocument finishes with a failure (the model call fails,
\* the text does not parse, or a later step throws), state.analysis is
\* absent, isLoading is false and state.error is the one message that
\* contains the failure's cause.
C4_FailedAnalysisKeepsNothing ==
    AnalysisFailed =>
        /\ state.analysis = Null
        /\ ~state.isLoading
        /\ state.error = {AnalysisErrorMessage(cause) : cause \in last.cause}
        /\ Cardinality(state.error) = 1

\* C5: a populated state.analysis never coexists with isLoading = true nor
\* with a non-null state.error.
C5_AnalysisExcludesLoadingAndError ==
    state.analysis # Null => (~state.isLoading /\ state.error = Null)

\* C6: if activeClause is non-null then state.analysis is present and has a
\* clause whose clause_number equals activeClause.
C6_ActiveClauseExists ==
    state.activeClause # Null =>
        /\ state.analysis # Null
        /\ Get(state.activeClause) \in Get(state.analysis).clauses

\* C7: whenever an analyzeDocument call completes successfully, at that
\* moment state.error is null and chatHistory is empty.
C7_SuccessLeavesCleanSlate ==
    AnalysisSucceeded => (state.error = Null /\ state.chatHistory = <<>>)

\* C8: every model turn in chatHistory is the reply of the current chat
\* session to a user turn that precedes it in chatHistory; no reply of an
\* earlier session enters the transcript.
C8_NoReplyOfEarlierSession ==
    \A i \in DOMAIN state.chatHistory :
        state.chatHistory[i].role = "model" =>
            /\ state.chat # Null
            /\ \E j \in 1..(i - 1) :
                /\ state.chatHistory[j].role = "user"
                /\ state.chatHistory[i].text =
                       Answer(Get(state.chat), state.chatHistory[j].text)

\* C9: at most one analysis request is in flight at any time.
C9_OneAnalysisInFlight ==
    Cardinality(analysisCalls) <= 1

\* C10: while a chat turn is in flight (isChatLoading = true), invoking
\* askFollowUpQuestion is a no-op: no message is sent, currentQuestion is
\* not cleared and the transcript keeps its length; a chat turn is in flight
\* exactly while isChatLoading is true, and at most one is outstanding.
C10_SecondQuestionIsNoOp ==
    /\ Cardinality(chatCalls) <= 1
    /\ state.isChatLoading <=> (chatCalls # {})
    /\ (AskInvoked /\ last.wasLoading) =>
          /\ last.result = "ignored"
          /\ chatCalls = last.callsBefore
          /\ state.currentQuestion = last.questionBefore
          /\ Len(state.chatHistory) = last.turnsBefore
          /\ state.isChatLoading

\* C10 witness: askFollowUpQuestion was invoked while a turn was in flight.
C10_Witness ==
    /\ AskInvoked
    /\ last.wasLoading
    /\ Cardinality(chatCalls) = 1

----------------------------------------------------------------------------
(* Properties of the validation and of the client check *)

\* A run of analyzeDocument up to its first return or await.
AnalyzeInvoked ==
    last.op = "analyzeDocument" /\ last.result \in {"no client", "blank", "started"}

\* A text that is empty or holds white space only.
IsBlank(t) == \A i \in DOMAIN t : t[i] = " "

\* C11 as stated: an analyzeDocument run with an empty or white-space-only
\* document issues no request and sets state.error to the validation
\* message, in every state from which it can be invoked.
C11_BlankAlwaysSetsValidationError ==
    (AnalyzeInvoked /\ IsBlank(last.form.documentContent)) =>
        /\ analysisCalls = last.callsBefore
        /\ state.error = Some(EmptyDocumentMessage)

\* C11 as amended: an analyzeDocument run with an empty or white-space-only
\* document never issues a request; when the model client was initialized it
\* sets state.error to the validation message, and when it was not it
\* returns at the client check and leaves state.error as it was.
C11_BlankIssuesNoCall ==
    (AnalyzeInvoked /\ IsBlank(last.form.documentContent)) =>
        /\ analysisCalls = last.callsBefore
        /\ ai => (last.result = "blank" /\ state.error = Some(EmptyDocumentMessage))
        /\ ~ai => last.result = "no client"

\* C11 witness: a white-space-only document was submitted with a client.
C11_Witness ==
    /\ AnalyzeInvoked
    /\ ai
    /\ last.form.documentContent = <<" ">>
    /\ state.error = Some(EmptyDocumentMessage)

\* C12: if the model client failed to initialize, no analysis or chat
\* request is ever issued and every analyzeDocument submission ends with
\* state.error holding the initialization-failure message.
C12_NoClientAlwaysReported ==
    ~ai =>
        /\ analysisCalls = {}
        /\ chatCalls = {}
        /\ AnalyzeInvoked => state.error = Some(InitFailedMessage)

----------------------------------------------------------------------------
(* Properties of the request and of the chat seed *)

\* Text t occurs in prompt p as a contiguous piece.
ContainsText(p, t) ==
    \E i \in 0..(Len(p) - Len(t)) : SubSeq(p, i + 1, i + Len(t)) = t

\* Value v follows its label in prompt p.
Labelled(p, label, v) ==
    \E i \in 1..(Len(p) - 1) : p[i] = label /\ p[i + 1] = v

PromptEmbeds(p, form) ==
    /\ ContainsText(p, form.documentContent)
    /\ Labelled(p, "User role:", form.userRole)
    /\ Labelled(p, "Desired summary audience/type:", form.audienceType)
    /\ Labelled(p, "Explanation complexity level:", form.explanationLevel)
    /\ Labelled(p, "Explanation tone:", form.explanationTone)

\* C13: for every combination of the four context fields, one run of
\* analyzeDocument with a non-blank document and an initialized client
\* issues exactly one generateContent request, whose prompt contains the
\* document text and the four context fields as they are in state at
\* submit time.
C13_OneRequestWithContext ==
    (AnalyzeInvoked /\ ai /\ ~IsBlank(last.form.documentContent)) =>
        /\ last.result = "started"
        /\ last.form = state.form
        /\ last.callsBefore \subseteq analysisCalls
        /\ \E call \in analysisCalls :
            /\ analysisCalls \ last.callsBefore = {call}
            /\ PromptEmbeds(call.prompt, state.form)

\* C13 witness: a request was issued with every context field edited and
\* audience and complexity level different.
C13_Witness ==
    /\ AnalysisStarted
    /\ state.form.userRole = "Landlord"
    /\ state.form.audienceType = "Expert"
    /\ state.form.explanationLevel = "Intermediate"
    /\ state.form.explanationTone = "Formal"
    /\ Cardinality(analysisCalls) = 1

\* C14 as stated: on a successful analysis the chat session is seeded with
\* exactly two turns, a user turn equal to the prompt just sent and a model
\* turn equal to the raw response text just received, nothing added or
\* removed.
C14_SeedIsPromptAndRawResponse ==
    AnalysisSucceeded =>
        /\ state.chat # Null
        /\ \A exchange \in last.exchange :
            Get(state.chat).history =
                << [role |-> "user",
                    parts |-> [prefix |-> <<>>, text |-> exchange.prompt]],
                   [role |-> "model",
                    parts |-> [prefix |-> <<>>, text |-> exchange.text]] >>

\* C14 as amended: the seed has exactly two turns, a user turn equal to the
\* prompt just sent and a model turn that is the sentence "I have analyzed
\* the document. Here is the summary in JSON format as requested:" followed
\* by the response text with the white space around it trimmed.
C14_SeedIsPromptAndPrefixedResponse ==
    AnalysisSucceeded =>
        /\ state.chat # Null
        /\ last.exchange # Null
        /\ \A exchange \in last.exchange :
            LET history == Get(state.chat).history
            IN  /\ Len(history) = 2
                /\ history[1] = [role |-> "user",
                                 parts |-> [prefix |-> <<>>, text |-> exchange.prompt]]
                /\ history[2].role = "model"
                /\ history[2].parts.prefix =
                     <<"I have analyzed the document. Here is the summary in JSON format as requested:\n">>
                /\ history[2].parts.text.json = exchange.text.json
                /\ history[2].parts.text.padding = ""

\* C14 witness: an analysis succeeded on a response with white space around
\* its JSON.
C14_Witness ==
    /\ AnalysisSucceeded
    /\ state.chat # Null
    /\ \E exchange \in last.exchange : exchange.text.padding = "\n"

----------------------------------------------------------------------------
(* Properties of the chat turn, the session lifecycle and toggleClause *)

AskFailed == last.op = "askFollowUpQuestion" /\ last.result = "failed"

Ready == state.analysis # Null /\ state.chat # Null /\ state.error = Null
Failed == state.error # Null /\ state.analysis = Null
AskSettled ==
    last.op = "askFollowUpQuestion" /\ last.result \in {"succeeded", "failed"}

\* C16: each analysis that was started leaves Analyzing with isLoading =
\* false and ends in exactly one of Ready (analysis and chat present, no
\* error) or Failed (error set, analysis absent); each chat turn returns to
\* isChatLoading = false with the session (state.chat) still present.  The
\* end states the claim names, as a property of the state in which the
\* awaited call has settled.
C16_EndsReadyOrFailed ==
    /\ (AnalysisSucceeded \/ AnalysisFailed) =>
          /\ ~state.isLoading
          /\ Ready # Failed
    /\ AskSettled =>
          /\ ~state.isChatLoading
          /\ state.chat # Null

\* C17: toggleClause(N) sets activeClause to null when it was N and to N
\* otherwise, changes no other field of state, and at most one clause is
\* active (and shown expanded) in any state.
C17_ToggleClause ==
    /\ Cardinality(state.activeClause) <= 1
    /\ view.output.panel = "analysis" => Cardinality(view.output.expanded) <= 1
    /\ last.op = "toggleClause" =>
          /\ last.before.activeClause = Some(last.clause) => state.activeClause = Null
          /\ last.before.activeClause # Some(last.clause) =>
                state.activeClause = Some(last.clause)
          /\ [state EXCEPT !.activeClause = last.before.activeClause] = last.before

\* C17 witness: the active clause was clicked again and is closed.
C17_Witness ==
    /\ last.op = "toggleClause"
    /\ last.before.activeClause = Some(last.clause)
    /\ state.activeClause = Null

\* A click on another clause replaces the active one (also reached).
C17_WitnessReplace ==
    /\ last.op = "toggleClause"
    /\ last.before.activeClause # Null
    /\ last.before.activeClause # Some(last.clause)
    /\ state.activeClause = Some(last.clause)


UploadFailed ==
    last.op = "handleFileUpload" /\ last.result \in {"unsupported", "failed"}

\* C18: an upload of a file that is neither plain text nor PDF, or whose
\* extraction fails, ends with state.error set to the message that embeds the
\* cause, documentContent empty, analysis absent and isLoading false.
C18_FailedUploadEndsClean ==
    UploadFailed =>
        /\ state.error = Some(UploadErrorMessage(Get(last.cause)))
        /\ state.form.documentContent = <<>>
        /\ state.analysis = Null
        /\ ~state.isLoading

\* The part of C18 about the analysis alone (typing in the textarea during
\* the read set aside): a failed upload ends with no analysis installed.
C18_FailedUploadLeavesNoAnalysis ==
    UploadFailed => state.analysis = Null

\* The part of C18 that the catch and the finally (line 498-502) do
\* establish: the message embeds the cause and isLoading is false.
C18_FailedUploadReportsCause ==
    UploadFailed =>
        /\ state.error = Some(UploadErrorMessage(Get(last.cause)))
        /\ ~state.isLoading


\* C19: the rendered view is the view computed from the current state (every
\* state of this model is quiescent: each action runs a handler up to its
\* next await); in particular the chat send control is shown enabled exactly
\* when currentQuestion is non-blank and no chat turn is in flight.
C19_ViewIsCurrent ==
    /\ view = renderApp(state)
    /\ ChatFormShown(view) =>
          (~view.output.chat.sendDisabled <=>
              (~IsBlank(state.currentQuestion) /\ chatCalls = {}))


\* C20: isLoading is true, and the submit control is rendered disabled, in
\* every state in which a file ingestion or an analysis request is still in
\* flight: the completion of one of two overlapping operations does not clear
\* the flag while the other is pending.
C20_LoadingWhileInFlight ==
    (analysisCalls # {} \/ uploadCalls # {}) =>
        (state.isLoading /\ view.submitDisabled)


\* C21: a new chat session starts clean: in the state in which a successful
\* analysis has installed a new state.chat, chatError is null and
\* isChatLoading is false, so neither an error nor an unresolved turn of the
\* previous session shows in, or blocks the input of, the new session.
C21_NewSessionStartsClean ==
    (AnalysisSucceeded /\ state.chat # Null) =>
        /\ state.chatError = Null
        /\ ~state.isChatLoading
        /\ ChatFormShown(view) =>
              /\ view.output.chat.chatError = Null
              /\ ~view.output.chat.inputDisabled

\* The two halves of C21 taken alone: the error of the previous session,
\* and its unresolved turn.
C21_NoChatErrorOfEarlierSession ==
    (AnalysisSucceeded /\ state.chat # Null) => state.chatError = Null

C21_NoTurnOfEarlierSessionPending ==
    (AnalysisSucceeded /\ state.chat # Null) => ~state.isChatLoading

====
